---- MODULE Spec2Model ----
(***************************************************************************)
(* A model of sprint_12_saude_chile_rev_1.py: the yearly hospital          *)
(* discharge ETL (file discovery -> year extraction -> existence check ->  *)
(* load -> preprocess -> persist -> validate).                             *)
(*                                                                         *)
(* Strings the code inspects character by character (paths, file names)    *)
(* are sequences of one-character strings.  A DataFrame is a record        *)
(* [columns, index, rows] of typed cells.  Operations of the environment   *)
(* that the code guards with try/except (queries, reads, inserts) may      *)
(* fail; the driver's specifications let them fail a bounded number of     *)
(* times.                                                                  *)
(***************************************************************************)
EXTENDS Integers, Sequences, FiniteSets, TLC

VARIABLES
    \* ---- extract_year_from_path, called on its own ----
    ypc,            \* "start" | "extracted" | "discovered"
    path,           \* the file_path argument (or the directory entry examined)
    year_result,    \* what extract_year_from_path returned / raised
    ybranch,        \* the branch of the driver's discovery step for `path`
    \* ---- preprocess_data, called on its own ----
    ppc,            \* "start" | "done"
    df_in,          \* the df argument
    threshold,      \* the threshold argument, the fraction num/den
    pre_out,        \* [raised, df]: what preprocess_data raised / returned
    \* ---- data_already_exist, called on its own ----
    epc,            \* "start" | "done"
    e_year,         \* the year argument
    e_table0,       \* the destination table before the call
    e_out,          \* [raised, value, log]: what data_already_exist did
    \* ---- the store and the data directory ----
    table,          \* the destination table egresos_pacientes
    listing,        \* os.listdir(data_directory), in the platform's order
    files,          \* what read_csv returns for each data file of the directory
    fault_limit,    \* how many operations the environment may make fail
    \* ---- the driver processes ----
    run,            \* the number of the current sequential run
    pc,             \* per process: where the driver is
    idx,            \* per process: position of the for loop in listing
    year,           \* per process: the year of the current file
    batch,          \* per process: processed_data awaiting save_to_database
    processed_any_file,
    validated,      \* per process: calls of validate_data in this run
    report,         \* per process: what validate_data printed
    \* ---- history, for stating the claims ----
    loaded,         \* per process: files passed to load_data in this run
    appended,       \* per process: files whose rows to_sql appended in this run
    checks,         \* per process: the existence checks made in this run
    faults,         \* environment failures injected so far
    table_at_start, \* the table when the current run started
    first_run       \* [table, report] when the first run ended

yvars == <<ypc, path, year_result, ybranch>>
pvars == <<ppc, df_in, threshold, pre_out>>
evars == <<epc, e_year, e_table0, e_out>>
envvars == <<listing, files, fault_limit>>
procvars == <<pc, idx, year, batch, processed_any_file, validated, report>>
histvars == <<loaded, appended, checks, faults, table_at_start, first_run>>
dvars == <<table, envvars, run, procvars, histvars>>

vars == <<yvars, pvars, evars, dvars>>

(***************************************************************************)
(* Bounds of the model.                                                    *)
(***************************************************************************)
MaxPathBody == 4
MaxRowsPre == 2
MaxThresholdDen == 2
MaxRows == 1
MaxFiles == 2
MaxRuns == 2
MaxFaults == 2

(***************************************************************************)
(* Characters and strings.                                                 *)
(***************************************************************************)
Digits == {"0", "1", "2", "3", "4", "5", "6", "7", "8", "9"}

DigitVal(c) ==
    CASE c = "0" -> 0 [] c = "1" -> 1 [] c = "2" -> 2 [] c = "3" -> 3
      [] c = "4" -> 4 [] c = "5" -> 5 [] c = "6" -> 6 [] c = "7" -> 7
      [] c = "8" -> 8 [] c = "9" -> 9

DotCsv == <<".", "c", "s", "v">>

FilePrefix == <<"E","G","R","E","_","D","A","T","O","S","_",
                "A","B","I","E","R","T","O","S","_">>

\* s[-n:]
LastN(s, n) == IF Len(s) <= n THEN s ELSE SubSeq(s, Len(s) - n + 1, Len(s))

\* s.split(sep)[-1]
AfterLast(s, sep) ==
    LET pos == {i \in 1..Len(s) : s[i] = sep}
    IN  IF pos = {} THEN s
        ELSE LET p == CHOOSE i \in pos : \A j \in pos : j <= i
             IN  SubSeq(s, p + 1, Len(s))

\* s.split(sep)[0]
BeforeFirst(s, sep) ==
    LET pos == {i \in 1..Len(s) : s[i] = sep}
    IN  IF pos = {} THEN s
        ELSE LET p == CHOOSE i \in pos : \A j \in pos : i <= j
             IN  SubSeq(s, 1, p - 1)

RECURSIVE DigitsValue(_)
DigitsValue(s) ==
    IF s = <<>> THEN 0
    ELSE LET c == s[Len(s)]
             r == DigitsValue(SubSeq(s, 1, Len(s) - 1))
         IN  IF c = "_" THEN r ELSE 10 * r + DigitVal(c)

\* Python's int(str) on the characters of the model: an optional sign, then
\* digits, single underscores allowed between digits; anything else is a
\* ValueError.
PyInt(s) ==
    LET signed == s /= <<>> /\ s[1] \in {"-", "+"}
        body   == IF signed THEN Tail(s) ELSE s
        wellFormed ==
            /\ body /= <<>>
            /\ body[1] \in Digits
            /\ body[Len(body)] \in Digits
            /\ \A i \in 1..Len(body) : body[i] \in Digits \cup {"_"}
            /\ \A i \in 1..(Len(body) - 1) : ~(body[i] = "_" /\ body[i + 1] = "_")
    IN  IF ~wellFormed THEN [raised |-> "ValueError", val |-> 0]
        ELSE [raised |-> "none",
              val |-> IF signed /\ s[1] = "-" THEN 0 - DigitsValue(body)
                      ELSE DigitsValue(body)]

(***************************************************************************)
(* extract_year_from_path.  The result is [kind, val]: kind "int" with the *)
(* year, kind "None", or kind "raised" for an exception leaving the call.  *)
(***************************************************************************)
YearOf(v)    == [kind |-> "int", val |-> v]
YearNone     == [kind |-> "None", val |-> 0]
YearRaised   == [kind |-> "raised", val |-> 0]

\* re.search(r'(\d{4})\.csv$', file_path)
YearPatternMatches(file_path) ==
    /\ Len(file_path) >= 8
    /\ LastN(file_path, 4) = DotCsv
    /\ \A i \in (Len(file_path) - 7)..(Len(file_path) - 4) : file_path[i] \in Digits

\* Mutant: the capture group holds the last three digits only.
YearPatternGroup_ThreeDigits(file_path) ==
    SubSeq(file_path, Len(file_path) - 6, Len(file_path) - 4)

YearPatternGroup(file_path) ==
    SubSeq(file_path, Len(file_path) - 7, Len(file_path) - 4)

FallbackYearStr(file_path) ==
    LastN(BeforeFirst(AfterLast(file_path, "/"), "."), 4)

\* Mutant: the fallback's handler catches IndexError only.
extract_year_from_path_NarrowExcept(file_path) ==
    IF YearPatternMatches(file_path)
    THEN YearOf(PyInt(YearPatternGroup(file_path)).val)
    ELSE LET r == PyInt(FallbackYearStr(file_path))
         IN  IF r.raised = "none" THEN YearOf(r.val)
             ELSE IF r.raised \in {"IndexError"} THEN YearNone
             ELSE YearRaised

extract_year_from_path(file_path) ==
    IF YearPatternMatches(file_path)
    THEN YearOf(PyInt(YearPatternGroup(file_path)).val)
    ELSE LET r == PyInt(FallbackYearStr(file_path))
         IN  IF r.raised = "none" THEN YearOf(r.val)
             ELSE IF r.raised \in {"ValueError", "IndexError"} THEN YearNone
             ELSE YearRaised

(***************************************************************************)
(* The driver's discovery step for one directory entry.                    *)
(***************************************************************************)
data_directory == <<"d">>

\* os.path.join(data_directory, filename)
PathJoin(dir, filename) ==
    IF dir /= <<>> /\ dir[Len(dir)] = "/" THEN dir \o filename
    ELSE dir \o <<"/">> \o filename

\* re.match(r'EGRE_DATOS_ABIERTOS_\d{4}\.csv$', filename)
FileNameMatches(filename) ==
    /\ Len(filename) = Len(FilePrefix) + 8
    /\ SubSeq(filename, 1, Len(FilePrefix)) = FilePrefix
    /\ \A i \in (Len(FilePrefix) + 1)..(Len(FilePrefix) + 4) : filename[i] \in Digits
    /\ LastN(filename, 4) = DotCsv

DiscoverBranch(dir, filename) ==
    IF ~FileNameMatches(filename) THEN "nonmatching"
    ELSE IF extract_year_from_path(PathJoin(dir, filename)).kind = "None" THEN "skip_no_year"
    ELSE "check_existence"

(***************************************************************************)
(* Inputs of the year-extraction specification.                            *)
(***************************************************************************)
PathAlphabet == {"2", "0", "a", "/", ".", "-", "_"}

RECURSIVE SeqsUpTo(_, _)
SeqsUpTo(S, n) ==
    IF n = 0 THEN {<<>>}
    ELSE LET shorter == SeqsUpTo(S, n - 1)
         IN  shorter \cup {Append(s, c) : s \in {t \in shorter : Len(t) = n - 1}, c \in S}

PathExts == {<<>>, DotCsv, <<".", "t", "x", "t">>, <<".", "c", "s", "v", ".", "b">>}

YearDigits == {"0", "1", "2", "9"}

FourDigits == {<<a, b, c, d>> : a \in YearDigits, b \in YearDigits,
                                c \in YearDigits, d \in YearDigits}

DirPrefixes == {<<>>, <<"d", "/">>, <<"/", "2", "0", "1", "8", "/">>, <<"a", ".", "b", "/">>}

WellNamedPaths == {p \o FilePrefix \o y \o DotCsv : p \in DirPrefixes, y \in FourDigits}

ArbitraryPaths == {b \o e : b \in SeqsUpTo(PathAlphabet, MaxPathBody), e \in PathExts}

DirEntries ==
    {FilePrefix \o y \o DotCsv : y \in FourDigits}
        \cup {FilePrefix \o b \o DotCsv : b \in SeqsUpTo({"2", "a", "_"}, MaxPathBody)}
        \cup {<<"n", ".", "t", "x", "t">>}

YInit ==
    /\ ypc = "start"
    /\ path \in WellNamedPaths \cup ArbitraryPaths \cup DirEntries
    /\ year_result = YearNone
    /\ ybranch = "none"

\* A call extract_year_from_path(path).
ExtractYear ==
    /\ ypc = "start"
    /\ year_result' = extract_year_from_path(path)
    /\ ypc' = "extracted"
    /\ UNCHANGED <<path, ybranch>>

\* The driver's loop body up to the existence check, for the entry `path`
\* of the data directory.
Discover ==
    /\ ypc = "start"
    /\ path \in DirEntries
    /\ ybranch' = DiscoverBranch(data_directory, path)
    /\ year_result' = extract_year_from_path(PathJoin(data_directory, path))
    /\ ypc' = "discovered"
    /\ UNCHANGED path

YOff ==
    /\ ypc = "off"
    /\ path = <<>>
    /\ year_result = YearNone
    /\ ybranch = "none"


(***************************************************************************)
(* DataFrames.  A cell is a string (object dtype), an integer, NaN (a      *)
(* missing value) or a non-finite float; index holds the row labels.       *)
(***************************************************************************)
Str(s) == [t |-> "str", s |-> s, n |-> 0]
Num(n) == [t |-> "int", s |-> "", n |-> n]
NaN    == [t |-> "nan", s |-> "", n |-> 0]
Inf    == [t |-> "inf", s |-> "", n |-> 0]

\* pd.DataFrame()
EmptyFrame == [columns |-> <<>>, index |-> <<>>, rows |-> <<>>]

\* df.empty
IsEmpty(df) == Len(df.columns) = 0 \/ Len(df.rows) = 0

ColumnPos(df, col) == CHOOSE j \in 1..Len(df.columns) : df.columns[j] = col

HasColumn(df, col) == \E j \in 1..Len(df.columns) : df.columns[j] = col

(***************************************************************************)
(* preprocess_data                                                         *)
(***************************************************************************)
\* (x == '*').sum() for one row
StarCount(row) == Cardinality({j \in 1..Len(row) : row[j] = Str("*")})

\* int(num_columns * threshold), the threshold being the fraction num/den >= 0
allowed_stars(num_columns, thr) == (num_columns * thr.num) \div thr.den

\* Mutant: a strict comparison drops the boundary row.
RowKept_Strict(row, allowed) == StarCount(row) < allowed

RowKept(row, allowed) == StarCount(row) <= allowed

\* df[df.apply(lambda x: (x == '*').sum() <= allowed_stars, axis=1)].copy()
FilterRows(df, allowed) ==
    LET keep == SelectSeq([i \in 1..Len(df.rows) |-> i],
                          LAMBDA i : RowKept(df.rows[i], allowed))
    IN  [columns |-> df.columns,
         index   |-> [j \in 1..Len(keep) |-> df.index[keep[j]]],
         rows    |-> [j \in 1..Len(keep) |-> df.rows[keep[j]]]]

column_mapping(c) ==
    CASE c = "PERTE" -> "PERTENENCIA_ESTABLECIMIENTO_SALUD"
      [] c = "SEXO_PERSONA" -> "SEXO"
      [] c = "EDAD_GRUPO" -> "GRUPO_EDAD"
      [] c = "GRUPOS_ETAREOS" -> "ETNIA"
      [] c = "DIAS_ESTADIA" -> "DIAS_ESTADA"
      [] OTHER -> c

RenameColumns(df) ==
    [df EXCEPT !.columns = [j \in 1..Len(df.columns) |-> column_mapping(df.columns[j])]]

int_columns_to_convert == <<"COMUNA_RESIDENCIA", "REGION_RESIDENCIA", "ANO_EGRESO", "DIAS_ESTADA">>

\* The number a text cell parses to, for the texts of the model.
TextNumber(s) ==
    CASE s = "2018" -> Num(2018)
      [] s = "2019" -> Num(2019)
      [] s = "7" -> Num(7)
      [] s = "inf" -> Inf
      [] OTHER -> NaN

\* pd.to_numeric(..., errors='coerce') on one cell
to_numeric(cell) == IF cell.t = "str" THEN TextNumber(cell.s) ELSE cell

\* .fillna(0) on one cell
fillna0(cell) == IF cell.t = "nan" THEN Num(0) ELSE cell

\* .astype(int) raises on a non-finite value
AstypeIntRaises(column) == \E i \in 1..Len(column) : column[i].t \in {"inf", "nan"}

\* pd.to_numeric(cleaned_df[col], errors='coerce').fillna(0), before astype
CoercedColumn(df, j) ==
    [i \in 1..Len(df.rows) |-> fillna0(to_numeric(df.rows[i][j]))]

\* The loop over int_columns_to_convert: [raised, df].
RECURSIVE ConvertColumns(_, _)
ConvertColumns(df, k) ==
    IF k > Len(int_columns_to_convert) THEN [raised |-> FALSE, df |-> df]
    ELSE LET col == int_columns_to_convert[k]
         IN  IF ~HasColumn(df, col) THEN ConvertColumns(df, k + 1)
             ELSE LET j   == ColumnPos(df, col)
                      new == CoercedColumn(df, j)
                  IN  IF AstypeIntRaises(new) THEN [raised |-> TRUE, df |-> EmptyFrame]
                      ELSE ConvertColumns(
                              [df EXCEPT !.rows =
                                  [i \in 1..Len(df.rows) |-> [df.rows[i] EXCEPT ![j] = new[i]]]],
                              k + 1)

preprocess_data(df, thr) ==
    IF IsEmpty(df) THEN [raised |-> FALSE, df |-> df]
    ELSE LET num_columns == Len(df.columns)
             cleaned_df  == FilterRows(df, allowed_stars(num_columns, thr))
         IN  ConvertColumns(RenameColumns(cleaned_df), 1)

DefaultThreshold == [num |-> 1, den |-> 2]

(***************************************************************************)
(* Inputs of the preprocessing specification.                              *)
(***************************************************************************)
CellsOf(col) ==
    CASE col = "ANO_EGRESO" -> {Str("*"), Str("2019"), Num(2019), NaN, Inf}
      [] col = "DIAS_ESTADIA" -> {Str("*"), Str("x"), Str("7")}
      [] OTHER -> {Str("*"), Str("x")}

RowsOf(header) ==
    {r \in [1..Len(header) -> UNION {CellsOf(header[j]) : j \in 1..Len(header)}] :
        \A j \in 1..Len(header) : r[j] \in CellsOf(header[j])}

\* The frame read_csv returns for a header and its data rows.
Frame(header, rows) ==
    [columns |-> header, index |-> [i \in 1..Len(rows) |-> i - 1], rows |-> rows]

FramesOf(headers, maxRows) ==
    UNION {{Frame(h, rs) : rs \in UNION {[1..n -> RowsOf(h)] : n \in 0..maxRows}} : h \in headers}

HeadersPre ==
    {<<"ANO_EGRESO">>, <<"ANO_EGRESO", "DIAS_ESTADIA">>,
     <<"PERTE", "SEXO_PERSONA", "ANO_EGRESO">>, <<"PERTE", "DIAS_ESTADIA">>}

Thresholds == {[num |-> n, den |-> d] : n \in 0..(MaxThresholdDen + 1), d \in 1..MaxThresholdDen}

PInit ==
    /\ ppc = "start"
    /\ df_in \in FramesOf(HeadersPre, MaxRowsPre) \cup {EmptyFrame}
    /\ threshold \in Thresholds
    /\ pre_out = [raised |-> FALSE, df |-> EmptyFrame]

POff ==
    /\ ppc = "off"
    /\ df_in = EmptyFrame
    /\ threshold = DefaultThreshold
    /\ pre_out = [raised |-> FALSE, df |-> EmptyFrame]

\* A call preprocess_data(df_in, threshold).
Preprocess ==
    /\ ppc = "start"
    /\ pre_out' = preprocess_data(df_in, threshold)
    /\ ppc' = "done"
    /\ UNCHANGED <<df_in, threshold>>


(***************************************************************************)
(* The destination table.  A row is aligned with table.columns; NaN stands *)
(* for SQL NULL.                                                           *)
(***************************************************************************)
NoTable == [exists |-> FALSE, columns |-> <<>>, rows |-> <<>>]

\* What a statement on the table that names column col ends with: "ok" or
\* the exception it raises.  fault is the environment's failure, if any.
QueryOutcome(tbl, col, fault) ==
    IF fault /= "none" THEN fault
    ELSE IF ~tbl.exists THEN "no such table"
    ELSE IF ~HasColumn(tbl, col) THEN "no such column"
    ELSE "ok"

\* SELECT 1 FROM table WHERE ANO_EGRESO = :year_val LIMIT 1, fetchone()
YearRowExists(tbl, y) ==
    \E i \in 1..Len(tbl.rows) : tbl.rows[i][ColumnPos(tbl, "ANO_EGRESO")] = Num(y)

\* Mutant: the check ignores the year and reports any row as present.
data_already_exist_AnyRow(tbl, yr, fault) ==
    IF yr.kind = "None" THEN [raised |-> FALSE, value |-> FALSE, log |-> "WARNING"]
    ELSE LET q == QueryOutcome(tbl, "ANO_EGRESO", fault)
         IN  IF q = "ok"
             THEN [raised |-> FALSE, value |-> Len(tbl.rows) > 0, log |-> "none"]
             ELSE [raised |-> FALSE, value |-> FALSE, log |-> "ERRO"]

\* Mutant: the check always answers "not there".
data_already_exist_NeverThere(tbl, yr, fault) ==
    [raised |-> FALSE, value |-> FALSE, log |-> "none"]

data_already_exist(tbl, yr, fault) ==
    IF yr.kind = "None" THEN [raised |-> FALSE, value |-> FALSE, log |-> "WARNING"]
    ELSE LET q == QueryOutcome(tbl, "ANO_EGRESO", fault)
         IN  IF q = "ok"
             THEN [raised |-> FALSE, value |-> YearRowExists(tbl, yr.val), log |-> "none"]
             ELSE IF q \in {"operational", "no such table", "no such column"}
             THEN [raised |-> FALSE, value |-> FALSE,
                   log |-> IF q = "no such table" THEN "INFO" ELSE "ERRO"]
             ELSE [raised |-> FALSE, value |-> FALSE, log |-> "ERRO"]

\* load_data: read_csv's frame, or an empty frame when reading fails.
load_data(content, readable) == IF readable THEN content ELSE EmptyFrame

\* One row of df laid out on the table's columns.
TableRow(tbl_columns, df, i) ==
    [c \in 1..Len(tbl_columns) |->
        IF HasColumn(df, tbl_columns[c]) THEN df.rows[i][ColumnPos(df, tbl_columns[c])]
        ELSE NaN]

\* df.to_sql(name=table_name, con=engine, if_exists='append', index=False):
\* [raised, table].  The insert is one transaction.
to_sql(df, tbl, fault) ==
    IF fault THEN [raised |-> TRUE, table |-> tbl]
    ELSE IF ~tbl.exists
    THEN [raised |-> FALSE,
          table |-> [exists |-> TRUE, columns |-> df.columns, rows |-> df.rows]]
    ELSE IF \E j \in 1..Len(df.columns) : ~HasColumn(tbl, df.columns[j])
    THEN [raised |-> TRUE, table |-> tbl]
    ELSE [raised |-> FALSE,
          table |-> [tbl EXCEPT !.rows =
                        @ \o [i \in 1..Len(df.rows) |-> TableRow(tbl.columns, df, i)]]]

\* save_to_database: [raised, table, wrote].
save_to_database(df, tbl, fault) ==
    IF IsEmpty(df) THEN [raised |-> FALSE, table |-> tbl, wrote |-> FALSE]
    ELSE LET r == to_sql(df, tbl, fault)
         IN  [raised |-> FALSE, table |-> r.table, wrote |-> ~r.raised]

\* The (year, count) lines of SELECT ANO_EGRESO, count(*) ... GROUP BY ANO_EGRESO
YearCounts(tbl) ==
    LET pos  == ColumnPos(tbl, "ANO_EGRESO")
        keys == {tbl.rows[i][pos] : i \in 1..Len(tbl.rows)}
    IN  {<<k, Cardinality({i \in 1..Len(tbl.rows) : tbl.rows[i][pos] = k})>> : k \in keys}

\* validate_data: what it prints; it never raises.
validate_data(tbl, fault) ==
    LET q == QueryOutcome(tbl, "ANO_EGRESO", fault)
    IN  IF q = "ok"
        THEN IF Len(tbl.rows) > 0 THEN [status |-> "counts", counts |-> YearCounts(tbl)]
             ELSE [status |-> "no records", counts |-> {}]
        ELSE IF q = "no such table" THEN [status |-> "no table", counts |-> {}]
        ELSE [status |-> "error", counts |-> {}]

(***************************************************************************)
(* The driver (the __main__ block), one copy per process.                  *)
(***************************************************************************)
Procs == {1, 2}

NoReport == [status |-> "none", counts |-> {}]

\* The directory entries of the model, and their characters.
File2018 == "EGRE_DATOS_ABIERTOS_2018.csv"
File2019 == "EGRE_DATOS_ABIERTOS_2019.csv"
NotesTxt == "notes.txt"

Chars(name) ==
    CASE name = File2018 -> FilePrefix \o <<"2", "0", "1", "8">> \o DotCsv
      [] name = File2019 -> FilePrefix \o <<"2", "0", "1", "9">> \o DotCsv
      [] name = NotesTxt -> <<"n", "o", "t", "e", "s", ".", "t", "x", "t">>

DataFiles == {File2018, File2019}

Range(f) == {f[i] : i \in DOMAIN f}

\* Directory listings: distinct entries, in any order.
Listings ==
    {l \in SeqsUpTo(DataFiles \cup {NotesTxt}, MaxFiles) :
        \A i, j \in 1..Len(l) : i /= j => l[i] /= l[j]}

HeadersDrv == {<<"ANO_EGRESO", "DIAS_ESTADIA">>, <<"DIAS_ESTADIA">>}

FramesDrv == FramesOf(HeadersDrv, MaxRows)

\* The outcomes the environment may pick: a failure only while the budget
\* of injected failures lasts.
Outcomes(ok, failures) == IF faults < fault_limit THEN {ok} \cup failures ELSE {ok}

CountFault(failed) == IF failed THEN faults + 1 ELSE faults

\* Lines 314-332: create_db_engine and the data directory test; both leave
\* the process with sys.exit(1) on failure.
Startup(p) ==
    /\ pc[p] = "start"
    /\ \E outcome \in Outcomes("ok", {"no connection", "no data directory"}) :
          /\ pc' = [pc EXCEPT ![p] = IF outcome = "ok" THEN "loop" ELSE "exited"]
          /\ faults' = CountFault(outcome /= "ok")
    /\ processed_any_file' = [processed_any_file EXCEPT ![p] = FALSE]
    /\ idx' = [idx EXCEPT ![p] = 1]
    /\ UNCHANGED <<table, envvars, run, year, batch, validated, report,
                   loaded, appended, checks, table_at_start, first_run>>
    /\ UNCHANGED <<yvars, pvars, evars>>

\* Lines 333-343 and 364-370: the next directory entry, or the end of the loop.
NextFile(p) ==
    /\ pc[p] = "loop"
    /\ IF idx[p] > Len(listing)
       THEN /\ pc' = [pc EXCEPT ![p] = "validate"]
            /\ UNCHANGED <<idx, year>>
       ELSE LET filename == listing[idx[p]]
                branch   == DiscoverBranch(data_directory, Chars(filename))
            IN  IF branch = "check_existence"
                THEN /\ pc' = [pc EXCEPT ![p] = "check"]
                     /\ year' = [year EXCEPT ![p] =
                                    extract_year_from_path(
                                        PathJoin(data_directory, Chars(filename)))]
                     /\ UNCHANGED idx
                ELSE /\ idx' = [idx EXCEPT ![p] = @ + 1]
                     /\ UNCHANGED <<pc, year>>
    /\ UNCHANGED <<table, envvars, run, batch, processed_any_file, validated, report, histvars>>
    /\ UNCHANGED <<yvars, pvars, evars>>

\* Lines 346-349: data_already_exist(engine, table_name, year).
CheckExists(p) ==
    /\ pc[p] = "check"
    /\ \E fault \in Outcomes("none", {"operational", "other"}) :
          LET r == data_already_exist(table, year[p], fault)
          IN  /\ faults' = CountFault(fault /= "none")
              /\ checks' = [checks EXCEPT ![p] = @ \cup
                              {[file |-> listing[idx[p]], failed |-> fault /= "none",
                                value |-> r.value,
                                year_rows_then |->
                                    IF QueryOutcome(table, "ANO_EGRESO", "none") = "ok"
                                    THEN Cardinality({i \in 1..Len(table.rows) :
                                            table.rows[i][ColumnPos(table, "ANO_EGRESO")]
                                                = Num(year[p].val)})
                                    ELSE 0]}]
              /\ IF r.raised THEN /\ pc' = [pc EXCEPT ![p] = "crashed"]
                                  /\ UNCHANGED idx
                 ELSE IF r.value THEN /\ pc' = [pc EXCEPT ![p] = "loop"]
                                      /\ idx' = [idx EXCEPT ![p] = @ + 1]
                 ELSE /\ pc' = [pc EXCEPT ![p] = "load"]
                      /\ UNCHANGED idx
    /\ UNCHANGED <<table, envvars, run, year, batch, processed_any_file, validated, report,
                   loaded, appended, table_at_start, first_run>>
    /\ UNCHANGED <<yvars, pvars, evars>>

\* Lines 350-357 and 360-363: load_data, then preprocess_data with the
\* default threshold; an exception of preprocess_data is caught nowhere.
LoadAndPreprocess(p) ==
    /\ pc[p] = "load"
    /\ \E readable \in Outcomes(TRUE, {FALSE}) :
          LET filename == listing[idx[p]]
              raw_data == load_data(files[filename], readable)
              processed == preprocess_data(raw_data, DefaultThreshold)
          IN  /\ faults' = CountFault(~readable)
              /\ loaded' = [loaded EXCEPT ![p] = @ \cup {filename}]
              /\ IF IsEmpty(raw_data)
                 THEN /\ pc' = [pc EXCEPT ![p] = "loop"]
                      /\ idx' = [idx EXCEPT ![p] = @ + 1]
                      /\ UNCHANGED batch
                 ELSE IF processed.raised
                 THEN /\ pc' = [pc EXCEPT ![p] = "crashed"]
                      /\ UNCHANGED <<idx, batch>>
                 ELSE IF IsEmpty(processed.df)
                 THEN /\ pc' = [pc EXCEPT ![p] = "loop"]
                      /\ idx' = [idx EXCEPT ![p] = @ + 1]
                      /\ UNCHANGED batch
                 ELSE /\ pc' = [pc EXCEPT ![p] = "save"]
                      /\ batch' = [batch EXCEPT ![p] = processed.df]
                      /\ UNCHANGED idx
    /\ UNCHANGED <<table, envvars, run, year, processed_any_file, validated, report,
                   appended, checks, table_at_start, first_run>>
    /\ UNCHANGED <<yvars, pvars, evars>>

\* Lines 358-359: save_to_database(processed_data, engine, table_name), then
\* processed_any_file = True.
Save(p) ==
    /\ pc[p] = "save"
    /\ \E fault \in Outcomes(FALSE, {TRUE}) :
          LET r == save_to_database(batch[p], table, fault)
          IN  /\ faults' = CountFault(fault)
              /\ table' = r.table
              /\ appended' = [appended EXCEPT ![p] =
                                 IF r.wrote THEN Append(@, listing[idx[p]]) ELSE @]
    /\ processed_any_file' = [processed_any_file EXCEPT ![p] = TRUE]
    /\ batch' = [batch EXCEPT ![p] = EmptyFrame]
    /\ idx' = [idx EXCEPT ![p] = @ + 1]
    /\ pc' = [pc EXCEPT ![p] = "loop"]
    /\ UNCHANGED <<envvars, run, year, validated, report,
                   loaded, checks, table_at_start, first_run>>
    /\ UNCHANGED <<yvars, pvars, evars>>

\* Line 373: validate_data(engine, table_name), then the process ends.
Validate(p) ==
    /\ pc[p] = "validate"
    /\ \E fault \in Outcomes("none", {"operational", "other"}) :
          /\ faults' = CountFault(fault /= "none")
          /\ report' = [report EXCEPT ![p] = validate_data(table, fault)]
    /\ validated' = [validated EXCEPT ![p] = @ + 1]
    /\ pc' = [pc EXCEPT ![p] = "done"]
    /\ UNCHANGED <<table, envvars, run, idx, year, batch, processed_any_file,
                   loaded, appended, checks, table_at_start, first_run>>
    /\ UNCHANGED <<yvars, pvars, evars>>

\* The driver is started again once the previous run has ended.
RunAgain ==
    /\ pc[1] \in {"done", "crashed", "exited"}
    /\ run < MaxRuns
    /\ run' = run + 1
    /\ first_run' = IF run = 1 THEN [table |-> table, report |-> report[1]] ELSE first_run
    /\ table_at_start' = table
    /\ pc' = [pc EXCEPT ![1] = "start"]
    /\ idx' = [idx EXCEPT ![1] = 1]
    /\ year' = [year EXCEPT ![1] = YearNone]
    /\ batch' = [batch EXCEPT ![1] = EmptyFrame]
    /\ processed_any_file' = [processed_any_file EXCEPT ![1] = FALSE]
    /\ validated' = [validated EXCEPT ![1] = 0]
    /\ report' = [report EXCEPT ![1] = NoReport]
    /\ loaded' = [loaded EXCEPT ![1] = {}]
    /\ appended' = [appended EXCEPT ![1] = <<>>]
    /\ checks' = [checks EXCEPT ![1] = {}]
    /\ UNCHANGED <<table, envvars, faults>>
    /\ UNCHANGED <<yvars, pvars, evars>>

EOff ==
    /\ epc = "off"
    /\ e_year = YearNone
    /\ e_table0 = NoTable
    /\ e_out = [raised |-> FALSE, value |-> FALSE, log |-> "none", fault |-> "none"]

\* The state of the driver's variables before any process has started; the
\* processes of `started` are about to run.
DriverInit(started) ==
    /\ run = 1
    /\ pc = [p \in Procs |-> IF p \in started THEN "start" ELSE "off"]
    /\ idx = [p \in Procs |-> 1]
    /\ year = [p \in Procs |-> YearNone]
    /\ batch = [p \in Procs |-> EmptyFrame]
    /\ processed_any_file = [p \in Procs |-> FALSE]
    /\ validated = [p \in Procs |-> 0]
    /\ report = [p \in Procs |-> NoReport]
    /\ loaded = [p \in Procs |-> {}]
    /\ appended = [p \in Procs |-> <<>>]
    /\ checks = [p \in Procs |-> {}]
    /\ faults = 0
    /\ table_at_start = NoTable
    /\ first_run = [table |-> NoTable, report |-> NoReport]

DOff ==
    /\ table = NoTable
    /\ listing = <<>>
    /\ files = <<>>
    /\ fault_limit = 0
    /\ DriverInit({})

\* Sequential runs of one driver process on an unchanged data directory.
Init ==
    /\ listing \in Listings
    /\ files \in [Range(listing) \cap DataFiles -> FramesDrv]
    /\ fault_limit = MaxFaults
    /\ table = NoTable
    /\ DriverInit({1})
    /\ YOff /\ POff /\ EOff

Next ==
    \/ Startup(1)
    \/ NextFile(1)
    \/ CheckExists(1)
    \/ LoadAndPreprocess(1)
    \/ Save(1)
    \/ Validate(1)
    \/ RunAgain

Spec == Init /\ [][Next]_vars

\* The files of the concurrent runs: the year column holds the year or the
\* sentinel, the stay column a number read as text.
FramesConc ==
    {f \in FramesOf({<<"ANO_EGRESO", "DIAS_ESTADIA">>}, MaxRows) :
        \A i \in 1..Len(f.rows) :
            f.rows[i][1] \in {Num(2019), Str("*")} /\ f.rows[i][2] = Str("7")}

\* Two driver processes started on the same data directory and store (or
\* one alone), each making one run.
InitConc ==
    /\ listing \in Listings
    /\ files \in [Range(listing) \cap DataFiles -> FramesConc]
    /\ fault_limit \in {0, 1}
    /\ table = NoTable
    /\ \E started \in {{1}, {1, 2}} : DriverInit(started)
    /\ YOff /\ POff /\ EOff

NextConc ==
    \/ \E p \in Procs : Startup(p)
    \/ \E p \in Procs : NextFile(p)
    \/ \E p \in Procs : CheckExists(p)
    \/ \E p \in Procs : LoadAndPreprocess(p)
    \/ \E p \in Procs : Save(p)
    \/ \E p \in Procs : Validate(p)

SpecConc == InitConc /\ [][NextConc]_vars

(***************************************************************************)
(* data_already_exist called on its own, on the tables the driver builds.  *)
(***************************************************************************)
\* The batches the driver hands to save_to_database.
SavedBatches ==
    {preprocess_data(f, DefaultThreshold).df :
        f \in {g \in FramesDrv : ~preprocess_data(g, DefaultThreshold).raised}}

TablesAfter(tables) ==
    tables \cup {save_to_database(b, t, FALSE).table : b \in SavedBatches, t \in tables}

QueryFaults == {"none", "operational", "other"}

InitExists ==
    /\ epc = "start"
    /\ table \in TablesAfter(TablesAfter({NoTable}))
    /\ e_table0 = table
    /\ e_year \in {YearNone, YearOf(0), YearOf(2018), YearOf(2019)}
    /\ e_out = [raised |-> FALSE, value |-> FALSE, log |-> "none", fault |-> "none"]
    /\ listing = <<>>
    /\ files = <<>>
    /\ fault_limit = 0
    /\ DriverInit({})
    /\ YOff /\ POff

\* A call data_already_exist(engine, table_name, e_year); the query may fail.
CallExists ==
    /\ epc = "start"
    /\ \E fault \in QueryFaults :
          LET r == data_already_exist(table, e_year, fault)
          IN  e_out' = [raised |-> r.raised, value |-> r.value, log |-> r.log, fault |-> fault]
    /\ table' = table   \* a SELECT writes nothing
    /\ epc' = "done"
    /\ UNCHANGED <<e_year, e_table0, envvars, run, procvars, histvars>>
    /\ UNCHANGED <<yvars, pvars>>

NextExists == CallExists

SpecExists == InitExists /\ [][NextExists]_vars

(***************************************************************************)
(* The specifications of the functions called on their own.                *)
(***************************************************************************)
InitYear == YInit /\ POff /\ EOff /\ DOff

NextYear ==
    \/ ExtractYear /\ UNCHANGED <<pvars, evars, dvars>>
    \/ Discover /\ UNCHANGED <<pvars, evars, dvars>>

SpecYear == InitYear /\ [][NextYear]_vars

InitPre == PInit /\ YOff /\ EOff /\ DOff

NextPre == Preprocess /\ UNCHANGED <<yvars, evars, dvars>>

SpecPre == InitPre /\ [][NextPre]_vars

(***************************************************************************)
(* Claims about extract_year_from_path (specification SpecYear).           *)
(***************************************************************************)
\* "p ends in four digits immediately followed by .csv", stated on the text.
EndsInYearCsv(p) ==
    \E k \in 0..Len(p) :
        /\ Len(p) = k + 8
        /\ \A i \in 1..4 : p[k + i] \in Digits
        /\ \A i \in 1..4 : p[k + 4 + i] = DotCsv[i]

\* "s is a decimal integer literal": an optional sign, then digits, single
\* underscores only between two digits.
IsIntLiteral(s) ==
    \E k \in {0, 1} :
        /\ Len(s) > k
        /\ k = 1 => s[1] \in {"+", "-"}
        /\ s[k + 1] \in Digits /\ s[Len(s)] \in Digits
        /\ \A i \in (k + 1)..Len(s) :
              \/ s[i] \in Digits
              \/ s[i] = "_" /\ s[i - 1] \in Digits /\ s[i + 1] \in Digits

\* The last (up to) four characters of the last path segment's part before
\* its first dot.
StemTail(p) ==
    LET slashes == {i \in 1..Len(p) : p[i] = "/"}
        from    == IF slashes = {} THEN 1 ELSE (CHOOSE i \in slashes : \A j \in slashes : j <= i) + 1
        dots    == {i \in from..Len(p) : p[i] = "."}
        to      == IF dots = {} THEN Len(p) ELSE (CHOOSE i \in dots : \A j \in dots : i <= j) - 1
        start   == IF to - from + 1 > 4 THEN to - 3 ELSE from
    IN  [i \in 1..(to - start + 1) |-> p[start + i - 1]]

\* C4 (as claimed): for every path that does not end in four digits followed
\* by ".csv", extract_year_from_path returns None and raises nothing; it never
\* returns an integer for such a path.
C4_NonMatchingPathGivesNone ==
    (ypc = "extracted" /\ ~EndsInYearCsv(path)) => year_result = YearNone

\* C4 (amended): for every path that does not end in four digits followed by
\* ".csv", extract_year_from_path raises nothing, and it returns None exactly
\* when the last (up to) four characters of the last segment's stem are not an
\* integer literal; otherwise it returns an integer (the fallback's parse).
C4_NonMatchingPathFallsBack ==
    (ypc = "extracted" /\ ~EndsInYearCsv(path)) =>
        /\ year_result.kind /= "raised"
        /\ year_result.kind = "None" <=> ~IsIntLiteral(StemTail(path))
        /\ year_result.kind = "int" <=> IsIntLiteral(StemTail(path))

\* A path without the year suffix for which the fallback returned an integer.
C4_Witness ==
    /\ ypc = "extracted"
    /\ ~EndsInYearCsv(path)
    /\ path = <<"a", "/", "2", "0", ".", "t", "x", "t">>
    /\ year_result = YearOf(20)

\* The integer a four-digit text denotes.
FourDigitValue(y) ==
    1000 * DigitVal(y[1]) + 100 * DigitVal(y[2]) + 10 * DigitVal(y[3]) + DigitVal(y[4])

\* C5: for every four-digit YYYY and every directory prefix, the path whose
\* last segment is EGRE_DATOS_ABIERTOS_YYYY.csv yields the integer YYYY, and
\* the driver never takes its "year is None, skip" branch for a directory
\* entry that passed its pattern match.
C5_WellNamedFileGivesItsYear ==
    /\ ypc = "extracted" =>
          \A p \in DirPrefixes : \A y \in FourDigits :
              path = p \o FilePrefix \o y \o DotCsv
                  => year_result = YearOf(FourDigitValue(y))
    /\ ypc = "discovered" =>
          /\ ybranch /= "skip_no_year"
          /\ \A y \in FourDigits :
                path = FilePrefix \o y \o DotCsv
                    => ybranch = "check_existence" /\ year_result = YearOf(FourDigitValue(y))

\* A well-named file under a directory whose own name holds digits, and a
\* matching directory entry the driver sent on to the existence check.
C5_Witness ==
    \/ /\ ypc = "extracted"
       /\ path = <<"/", "2", "0", "1", "8", "/">> \o FilePrefix \o <<"2", "0", "1", "9">> \o DotCsv
       /\ year_result = YearOf(2019)
    \/ /\ ypc = "discovered"
       /\ path = FilePrefix \o <<"2", "0", "1", "9">> \o DotCsv
       /\ ybranch = "check_existence"

(***************************************************************************)
(* Claims about preprocess_data (specification SpecPre).                   *)
(***************************************************************************)
\* floor(n * num / den), stated as the largest m with m * den <= n * num.
FloorOfProduct(n, thr) ==
    CHOOSE m \in 0..(n * thr.num) :
        /\ m * thr.den <= n * thr.num
        /\ (m + 1) * thr.den > n * thr.num

StarsInRow(df, i) == Cardinality({j \in 1..Len(df.columns) : df.rows[i][j] = Str("*")})

C7_TargetColumnsAreIntegers ==
    (ppc = "done" /\ ~IsEmpty(df_in)) =>
        /\ ~pre_out.raised
        /\ \A c \in 1..Len(pre_out.df.columns) :
              pre_out.df.columns[c] \in {"COMUNA_RESIDENCIA", "REGION_RESIDENCIA",
                                         "ANO_EGRESO", "DIAS_ESTADA"}
                  => \A j \in 1..Len(pre_out.df.rows) :
                        /\ pre_out.df.rows[j][c].t = "int"
                        /\ \A i \in 1..Len(df_in.rows) :
                              (df_in.index[i] = pre_out.df.index[j]
                                 /\ df_in.rows[i][c] \in {Str("*"), Str("x"), NaN})
                                  => pre_out.df.rows[j][c] = Num(0)

(***************************************************************************)
(* Claims about the driver run twice in sequence (specification Spec).     *)
(***************************************************************************)
Occurrences(rows, r) == Cardinality({i \in 1..Len(rows) : rows[i] = r})

SameRowMultiset(t1, t2) ==
    /\ t1.exists = t2.exists
    /\ \A r \in Range(t1.rows) \cup Range(t2.rows) :
          Occurrences(t1.rows, r) = Occurrences(t2.rows, r)

RowsOfYear(tbl, y) ==
    IF tbl.exists /\ HasColumn(tbl, "ANO_EGRESO")
    THEN Cardinality({i \in 1..Len(tbl.rows) :
                         tbl.rows[i][ColumnPos(tbl, "ANO_EGRESO")] = Num(y)})
    ELSE 0

YearsIn(tbl) ==
    IF tbl.exists /\ HasColumn(tbl, "ANO_EGRESO")
    THEN {c.n : c \in {d \in {tbl.rows[i][ColumnPos(tbl, "ANO_EGRESO")] : i \in 1..Len(tbl.rows)} :
                          d.t = "int"}}
    ELSE {}

\* The data file of a year ("" when the model's directory has none).
FileOfYear(y) == IF y = 2018 THEN File2018 ELSE IF y = 2019 THEN File2019 ELSE ""

\* C1: the second of two runs on the same unchanged data directory and store
\* leaves the destination table with the same multiset of rows as the first
\* run left, and validate_data prints the same per-year counts.  Stated for
\* the runs in which no operation of the environment fails.
C1_SecondRunIsIdempotent ==
    (run = 2 /\ pc[1] = "done" /\ faults = 0) =>
        /\ SameRowMultiset(table, first_run.table)
        /\ report[1] = first_run.report

\* C2: a year with at least one row in the destination table when a run
\* starts has its file neither loaded, preprocessed nor persisted in that run,
\* and has as many rows at the end of the run as at its start.  Stated for
\* the runs in which no operation of the environment fails.
C2_PresentYearIsLeftAlone ==
    (pc[1] = "done" /\ faults = 0) =>
        \A y \in YearsIn(table_at_start) :
            /\ FileOfYear(y) \notin loaded[1]
            /\ FileOfYear(y) \notin Range(appended[1])
            /\ RowsOfYear(table, y) = RowsOfYear(table_at_start, y)

\* C3: once the engine exists and the data directory is found, no failure of
\* a per-file stage aborts the run: every directory entry is gone through and
\* validate_data runs exactly once after the loop.
C3_StageFailureNeverAborts ==
    \A p \in Procs :
        /\ pc[p] /= "crashed"
        /\ pc[p] = "done" => validated[p] = 1 /\ idx[p] = Len(listing) + 1
        /\ pc[p] \in {"loop", "check", "load", "save", "validate"} => validated[p] = 0

\* C9: at the end of the loop processed_any_file is True if and only if at
\* least one row was appended to the destination table during this run.
C9_FlagIffRowsWritten ==
    pc[1] \in {"validate", "done"} =>
        (processed_any_file[1] <=> Len(appended[1]) > 0)

(***************************************************************************)
(* Claim about data_already_exist (specification SpecExists).              *)
(***************************************************************************)
\* C8: data_already_exist returns True exactly when a year is given and the
\* query returns a row of that year; it returns False without raising when
\* the year is absent, the table (or the column) is missing or the query
\* fails for any other reason; it never modifies the destination table.
C8_ExistsIffRowOfYear ==
    epc = "done" =>
        /\ ~e_out.raised
        /\ table = e_table0
        /\ e_out.value <=>
              /\ e_year.kind = "int"
              /\ e_out.fault = "none"
              /\ RowsOfYear(e_table0, e_year.val) > 0
        /\ e_year.kind = "None" => ~e_out.value
        /\ ~e_table0.exists => ~e_out.value
        /\ e_out.fault /= "none" => ~e_out.value

\* The year's rows are in the table, the query fails, and the answer is False.
C8_Witness ==
    /\ epc = "done"
    /\ e_year = YearOf(2019)
    /\ RowsOfYear(table, 2019) > 0
    /\ e_out.fault = "operational"
    /\ ~e_out.raised
    /\ ~e_out.value

(***************************************************************************)
(* Claim about concurrent driver processes (specification SpecConc).       *)
(***************************************************************************)
TimesAppended(p, f) == Cardinality({i \in 1..Len(appended[p]) : appended[p][i] = f})

\* C10: the existence check and the append are separate steps.  A process
\* appends a file's rows only after its own check for that file answered
\* False, and that answer rests on the table as it was at the check (no row
\* of the year yet, or a failed query): nothing stops another process from
\* appending in between.  A driver process running alone appends no file's
\* rows twice within its run.
C10_AppendFollowsOwnStaleCheck ==
    /\ \A p \in Procs : \A f \in Range(appended[p]) :
          \E c \in checks[p] :
              /\ c.file = f
              /\ ~c.value
              /\ c.failed \/ c.year_rows_then = 0
    /\ pc[2] = "off" => \A f \in DataFiles : TimesAppended(1, f) <= 1
    /\ \A p \in Procs : \A f \in DataFiles : TimesAppended(p, f) <= 1

\* Both processes checked year 2019 on the still empty store, neither query
\* failed, both appended the file: its one row is in the table twice.
C10_Witness ==
    /\ faults = 0
    /\ pc[1] = "done" /\ pc[2] = "done"
    /\ appended[1] = <<File2019>> /\ appended[2] = <<File2019>>
    /\ \A p \in Procs : \A c \in checks[p] : c.year_rows_then = 0 /\ ~c.failed /\ ~c.value
    /\ Len(table.rows) = 2
    /\ table.rows[1] = table.rows[2]
    /\ RowsOfYear(table, 2019) = 2

====
